---- MODULE Spec2Model ----
(***************************************************************************)
(* Model of casadi/core/runtime/shared.hpp: the Einstein-summation plan    *)
(* builder einstein_process and the contraction executor einstein_eval.    *)
(*                                                                         *)
(* C++ vectors are 0-based; the sequences below are 1-based, so the C++    *)
(* element v[k] is v[k+1] here.  Data buffers are functions on 0..numel-1  *)
(* and are indexed by the C++ offset itself.  All quantities stay far      *)
(* below 2^31 within the bounds, so int arithmetic does not wrap.          *)
(***************************************************************************)
EXTENDS Integers, Sequences, FiniteSets, TLC

VARIABLES
  dim_a, dim_b, dim_c,      \* shapes handed to einstein_process
  a, b, c,                  \* index specs handed to einstein_process
  a_in, b_in, c_in,         \* data buffers of the arithmetic instantiation
  bv_a, bv_b, bv_c,         \* data buffers of the bvec_t instantiation
  iter_dims,                \* the caller's vectors passed by reference
  strides_a, strides_b, strides_c,
  n_iter,                   \* value returned by the last einstein_process
  pc,                       \* "init", "planned", "error"
  err,                      \* which casadi_assert failed ("" if none)
  calls,                    \* number of einstein_process calls that returned
  first,                    \* history: outputs of the first call
  last_sort,                \* what this build's std::sort gave, per input
  ev, trace,                \* einstein_eval<T>, T arithmetic: status, leaf offsets
  ev_bv, trace_bv           \* einstein_eval<bvec_t>: status, leaf offsets

vars == <<dim_a, dim_b, dim_c, a, b, c, a_in, b_in, c_in, bv_a, bv_b, bv_c,
          iter_dims, strides_a, strides_b, strides_c, n_iter, pc, err, calls,
          first, last_sort, ev, trace, ev_bv, trace_bv>>

(***************************************************************************)
(* Bounds of the model.                                                    *)
(***************************************************************************)
\* largest extent of a dimension handed to einstein_process
MaxExt == 2
\* total number of dimensions of the three operands together
MaxDims == 2
\* number of times the caller may plan into the same vectors
MaxCalls == 2
\* matrix-vector scenario: largest m and k
MaxMK == 3
\* matrix-vector scenario: number of buffer fillings per operand
MaxSeed == 2
\* executor scenario: largest number of iteration variables
MaxN == 5
\* executor scenario: largest extent of an iteration variable
MaxIterExt == 2
\* executor scenario: number of stride-table families less one
MaxPat == 3
\* executor scenario: largest iteration count of a plan
MaxIters == 48

Extents == 0..MaxExt
Labels == {-l : l \in 1..MaxDims}
Literals == 0..(MaxExt - 1)
Entries == Labels \cup Literals

(***************************************************************************)
(* Helpers from std_vector_tools.hpp.                                      *)
(***************************************************************************)
RECURSIVE product(_)
product(v) == IF Len(v) = 0 THEN 1 ELSE Head(v) * product(Tail(v))

Max(S) == CHOOSE x \in S : \A y \in S : y <= x

\* lu[v[i]] = i for every i, -1 elsewhere; size max(v)+1
lookupvector(v) ==
  [k \in 0..Max({v[i] : i \in 1..Len(v)}) |->
     IF \E i \in 1..Len(v) : v[i] = k
       THEN (CHOOSE i \in 1..Len(v) : v[i] = k /\ \A j \in 1..Len(v) : v[j] = k => j <= i) - 1
       ELSE -1]

numel(buf) == Cardinality(DOMAIN buf)

(***************************************************************************)
(* einstein_process                                                        *)
(***************************************************************************)
\* dim[i] as the code reads it: past the end of the vector the read is
\* undefined and yields g
At(dim, i, g) == IF i <= Len(dim) THEN dim[i] ELSE g

\* the label loop without the comparison of a repeated label's extent
RECURSIVE ScanLabels_NoCheck(_, _, _, _, _)
ScanLabels_NoCheck(map, spec, dim, i, g) ==
  IF i > Len(spec) THEN [ok |-> TRUE, map |-> map]
  ELSE IF spec[i] >= 0 \/ spec[i] \in DOMAIN map
    THEN ScanLabels_NoCheck(map, spec, dim, i + 1, g)
  ELSE ScanLabels_NoCheck([l \in DOMAIN map \cup {spec[i]} |->
                             IF l = spec[i] THEN At(dim, i, g) ELSE map[l]],
                          spec, dim, i + 1, g)

\* one of the three loops "Check if shared nodes dimensions match up"
RECURSIVE ScanLabels(_, _, _, _, _)
ScanLabels(map, spec, dim, i, g) ==
  IF i > Len(spec) THEN [ok |-> TRUE, map |-> map]
  ELSE IF spec[i] >= 0 THEN ScanLabels(map, spec, dim, i + 1, g)
  ELSE IF spec[i] \notin DOMAIN map
    THEN ScanLabels([l \in DOMAIN map \cup {spec[i]} |->
                       IF l = spec[i] THEN At(dim, i, g) ELSE map[l]],
                    spec, dim, i + 1, g)
  ELSE IF map[spec[i]] = At(dim, i, g)
    THEN ScanLabels(map, spec, dim, i + 1, g)
  ELSE [ok |-> FALSE, map |-> map]

EmptyMap == [l \in {} |-> 0]

\* the assertions of einstein_process in program order: the name of the first
\* one that fails, or "" with the dimension map
Validate(g) ==
  IF numel(a_in) # product(dim_a) \/ numel(b_in) # product(dim_b)
     \/ numel(c_in) # product(dim_c) THEN [err |-> "numel", map |-> EmptyMap]
  ELSE IF Len(dim_a) # Len(a) \/ Len(dim_b) # Len(b)
    THEN [err |-> "spec_length", map |-> EmptyMap]
  ELSE IF ~(Len(c) <= Len(a) + Len(b))
    THEN [err |-> "result_length", map |-> EmptyMap]
  ELSE LET ma == ScanLabels(EmptyMap, a, dim_a, 1, g)
           mb == ScanLabels(ma.map, b, dim_b, 1, g)
           mc == ScanLabels(mb.map, c, dim_c, 1, g)
       IN IF ma.ok /\ mb.ok /\ mc.ok THEN [err |-> "", map |-> mc.map]
          ELSE [err |-> "label_conflict", map |-> EmptyMap]

\* std::sort of the (label, extent) pairs by extent: any order of the labels
\* with ascending extents (the order of equal extents is unspecified)
SortOutcomes(map) ==
  LET n == Cardinality(DOMAIN map)
  IN {s \in [1..n -> DOMAIN map] :
        /\ \A i, j \in 1..n : i # j => s[i] # s[j]
        /\ \A i, j \in 1..n : i < j => ~(map[s[j]] < map[s[i]])}

\* the stride loop with a running stride that is never multiplied up
RECURSIVE StrideScan_NoCumprod(_, _, _, _, _, _, _)
StrideScan_NoCumprod(tab, spec, dim, lu, j, cumprod, g) ==
  IF j > Len(spec) THEN tab
  ELSE StrideScan_NoCumprod(
         IF spec[j] < 0
           THEN [tab EXCEPT ![1 + lu[-spec[j]] + 1] = cumprod]
           ELSE [tab EXCEPT ![1] = @ + spec[j] * cumprod],
         spec, dim, lu, j + 1, cumprod, g)

\* the stride loop summing the strides of a label's occurrences
RECURSIVE StrideScan_Sum(_, _, _, _, _, _, _)
StrideScan_Sum(tab, spec, dim, lu, j, cumprod, g) ==
  IF j > Len(spec) THEN tab
  ELSE StrideScan_Sum(
         IF spec[j] < 0
           THEN [tab EXCEPT ![1 + lu[-spec[j]] + 1] = @ + cumprod]
           ELSE [tab EXCEPT ![1] = @ + spec[j] * cumprod],
         spec, dim, lu, j + 1, cumprod * At(dim, j, g), g)

\* one of the three loops "Update data pointers to match indices"
RECURSIVE StrideScan(_, _, _, _, _, _, _)
StrideScan(tab, spec, dim, lu, j, cumprod, g) ==
  IF j > Len(spec) THEN tab
  ELSE StrideScan(
         IF spec[j] < 0
           THEN [tab EXCEPT ![1 + lu[-spec[j]] + 1] = cumprod]
           ELSE [tab EXCEPT ![1] = @ + spec[j] * cumprod],
         spec, dim, lu, j + 1, cumprod * At(dim, j, g), g)

\* the part of einstein_process after the dimension map is built
Plan(map, sorted, g) ==
  LET dim_map_keys == [i \in 1..Len(sorted) |-> -sorted[i]]
      exts == [i \in 1..Len(sorted) |-> map[sorted[i]]]
      dims == iter_dims \o exts
      zero == [k \in 1..(Len(dims) + 1) |-> 0]
      lu == IF Len(dim_map_keys) # 0 THEN lookupvector(dim_map_keys) ELSE <<>>
  IN [n_iter |-> product(exts),
      iter_dims |-> dims,
      strides_a |-> StrideScan(zero, a, dim_a, lu, 1, 1, g),
      strides_b |-> StrideScan(zero, b, dim_b, lu, 1, 1, g),
      strides_c |-> StrideScan(zero, c, dim_c, lu, 1, 1, g)]

Outputs == [iter_dims |-> iter_dims, strides_a |-> strides_a,
            strides_b |-> strides_b, strides_c |-> strides_c, n_iter |-> n_iter]

\* what the reads of dim_c past its end may yield (only c can be longer than
\* its shape once the assertions passed)
Garbage == IF Len(c) > Len(dim_c) THEN Extents ELSE {0}

\* one call of einstein_process on the caller's vectors as they are
einstein_process ==
  /\ ev = "none" /\ ev_bv = "none"
  /\ \E g \in Garbage :
       LET v == Validate(g) IN
         IF v.err # ""
           THEN /\ pc' = "error"
                /\ err' = v.err
                /\ UNCHANGED <<iter_dims, strides_a, strides_b, strides_c,
                               n_iter, calls, first, last_sort>>
           ELSE \E sorted \in SortOutcomes(v.map) :
                  /\ (calls > 0 /\ last_sort.in = v.map) => sorted = last_sort.out
                  /\ LET p == Plan(v.map, sorted, g) IN
                       /\ iter_dims' = p.iter_dims
                       /\ strides_a' = p.strides_a
                       /\ strides_b' = p.strides_b
                       /\ strides_c' = p.strides_c
                       /\ n_iter' = p.n_iter
                       /\ first' = IF calls = 0 THEN p ELSE first
                  /\ last_sort' = [in |-> v.map, out |-> sorted]
                  /\ pc' = "planned"
                  /\ err' = ""
                  /\ calls' = calls + 1
  /\ UNCHANGED <<dim_a, dim_b, dim_c, a, b, c, a_in, b_in, c_in,
                 bv_a, bv_b, bv_c, ev, trace, ev_bv, trace_bv>>

\* the caller plans into freshly constructed vectors
Process == pc = "init" /\ einstein_process

\* the caller plans again, with the same inputs, into the vectors of the
\* previous call
Replan == pc = "planned" /\ calls < MaxCalls /\ einstein_process

(***************************************************************************)
(* Contraction and einstein_eval                                           *)
(***************************************************************************)
\* a combine that overwrites instead of accumulating
Contraction_Assign(x, y, r) == x * y

\* template<typename T> Contraction: r += a*b
Contraction(x, y, r) == r + x * y

\* a bit combine that ANDs the two operands
Contraction_bvec_And(x, y, r) == r \cup (x \cap y)

\* Contraction<bvec_t>: r |= a | b.  A bvec_t is the set of its set bits, so
\* the bitwise OR is the union.
Contraction_bvec(x, y, r) == r \cup (x \cup y)

RECURSIVE Flatten(_)
Flatten(ss) == IF Len(ss) = 0 THEN <<>> ELSE Head(ss) \o Flatten(Tail(ss))

\* the index decomposition without the sub /= iter_dims[j] step
RECURSIVE Construct_NoDivide(_, _, _, _, _, _)
Construct_NoDivide(ptr, sub, j, dims, tab, n) ==
  IF ~(j < n - 3) THEN ptr
  ELSE Construct_NoDivide(ptr + tab[j + 2] * (sub % dims[j + 1]),
                          sub, j + 1, dims, tab, n)

\* "Construct indices": for (j=0; j<n-3; ++j), on one operand's pointer
RECURSIVE Construct(_, _, _, _, _, _)
Construct(ptr, sub, j, dims, tab, n) ==
  IF ~(j < n - 3) THEN ptr
  ELSE Construct(ptr + tab[j + 2] * (sub % dims[j + 1]),
                 sub \div dims[j + 1], j + 1, dims, tab, n)

\* the middle loop reading the innermost loop's stride slot
stride2_OffByOne(dims, tab) == IF Len(dims) > 1 THEN tab[Len(dims) + 1] ELSE 0

iter_dim3(dims) == IF Len(dims) > 0 THEN dims[Len(dims)] ELSE 1
iter_dim2(dims) == IF Len(dims) > 1 THEN dims[Len(dims) - 1] ELSE 1
iter_dim1(dims) == IF Len(dims) > 2 THEN dims[Len(dims) - 2] ELSE 1
stride3(dims, tab) == IF Len(dims) > 0 THEN tab[Len(dims) + 1] ELSE 0
stride2(dims, tab) == IF Len(dims) > 1 THEN tab[Len(dims)] ELSE 0
stride1(dims, tab) == IF Len(dims) > 2 THEN tab[Len(dims) - 1] ELSE 0

\* n_iter /= iter_dim1*iter_dim2*iter_dim3 and the sub % / sub /= steps need
\* non-zero divisors; division by zero is undefined
WalkDefined(n_it, dims) ==
  \/ n_it = 0
  \/ /\ iter_dim1(dims) * iter_dim2(dims) * iter_dim3(dims) # 0
     /\ \/ n_it \div (iter_dim1(dims) * iter_dim2(dims) * iter_dim3(dims)) <= 0
        \/ \A j \in 1..(Len(dims) - 3) : dims[j] # 0

\* the offsets (from a_in, b_in, c_in) of the operands of every Contraction
\* call of einstein_eval, in call order
Walk(n_it, dims, sa, sb, sc) ==
  IF n_it = 0 THEN <<>>
  ELSE
    LET n == Len(dims)
        outer == n_it \div (iter_dim1(dims) * iter_dim2(dims) * iter_dim3(dims))
        Loop3(a3, b3, c3) ==
          [i3 \in 1..iter_dim3(dims) |->
             <<a3 + (i3 - 1) * stride3(dims, sa),
               b3 + (i3 - 1) * stride3(dims, sb),
               c3 + (i3 - 1) * stride3(dims, sc)>>]
        Loop2(a2, b2, c2) ==
          Flatten([i2 \in 1..iter_dim2(dims) |->
             Loop3(a2 + (i2 - 1) * stride2(dims, sa),
                   b2 + (i2 - 1) * stride2(dims, sb),
                   c2 + (i2 - 1) * stride2(dims, sc))])
        Loop1(a1, b1, c1) ==
          Flatten([i1 \in 1..iter_dim1(dims) |->
             Loop2(a1 + (i1 - 1) * stride1(dims, sa),
                   b1 + (i1 - 1) * stride1(dims, sb),
                   c1 + (i1 - 1) * stride1(dims, sc))])
    IN Flatten([i \in 1..outer |->
         Loop1(Construct(sa[1], i - 1, 0, dims, sa, n),
               Construct(sb[1], i - 1, 0, dims, sb, n),
               Construct(sc[1], i - 1, 0, dims, sc, n))])

\* every access of the walk is inside its buffer of na, nb, nc elements
InRange(w, na, nb, nc) ==
  \A k \in 1..Len(w) :
    /\ 0 <= w[k][1] /\ w[k][1] < na
    /\ 0 <= w[k][2] /\ w[k][2] < nb
    /\ 0 <= w[k][3] /\ w[k][3] < nc
InBounds(w, A, B, C) == InRange(w, numel(A), numel(B), numel(C))

\* the Contraction calls k, k+1, ... of the walk applied in call order to the
\* result buffer
RECURSIVE Run(_, _, _, _, _)
Run(C, w, k, A, B) ==
  IF k > Len(w) THEN C
  ELSE Run([C EXCEPT ![w[k][3]] = Contraction(A[w[k][1]], B[w[k][2]], @)],
           w, k + 1, A, B)

RECURSIVE Run_bvec(_, _, _, _, _)
Run_bvec(C, w, k, A, B) ==
  IF k > Len(w) THEN C
  ELSE Run_bvec([C EXCEPT ![w[k][3]] = Contraction_bvec(A[w[k][1]], B[w[k][2]], @)],
                w, k + 1, A, B)

\* what an undefined access may leave in the result buffer
Havoc(buf) == {buf, [i \in DOMAIN buf |-> -1]}
Havoc_bvec(buf) == {buf, [i \in DOMAIN buf |-> {0}]}

\* einstein_eval<T> for an arithmetic T
Eval ==
  /\ pc = "planned" /\ ev = "none"
  /\ IF ~WalkDefined(n_iter, iter_dims)
       THEN /\ ev' = "ub" /\ trace' = <<>> /\ c_in' \in Havoc(c_in)
       ELSE LET w == Walk(n_iter, iter_dims, strides_a, strides_b, strides_c) IN
              /\ trace' = w
              /\ IF InBounds(w, a_in, b_in, c_in)
                   THEN ev' = "done" /\ c_in' = Run(c_in, w, 1, a_in, b_in)
                   ELSE ev' = "ub" /\ c_in' \in Havoc(c_in)
  /\ UNCHANGED <<dim_a, dim_b, dim_c, a, b, c, a_in, b_in, bv_a, bv_b, bv_c,
                 iter_dims, strides_a, strides_b, strides_c, n_iter, pc, err,
                 calls, first, last_sort, ev_bv, trace_bv>>

\* einstein_eval<bvec_t>
EvalBvec ==
  /\ pc = "planned" /\ ev_bv = "none"
  /\ IF ~WalkDefined(n_iter, iter_dims)
       THEN /\ ev_bv' = "ub" /\ trace_bv' = <<>> /\ bv_c' \in Havoc_bvec(bv_c)
       ELSE LET w == Walk(n_iter, iter_dims, strides_a, strides_b, strides_c) IN
              /\ trace_bv' = w
              /\ IF InBounds(w, bv_a, bv_b, bv_c)
                   THEN ev_bv' = "done" /\ bv_c' = Run_bvec(bv_c, w, 1, bv_a, bv_b)
                   ELSE ev_bv' = "ub" /\ bv_c' \in Havoc_bvec(bv_c)
  /\ UNCHANGED <<dim_a, dim_b, dim_c, a, b, c, a_in, b_in, c_in, bv_a, bv_b,
                 iter_dims, strides_a, strides_b, strides_c, n_iter, pc, err,
                 calls, first, last_sort, ev, trace>>

(***************************************************************************)
(* Initial states.                                                         *)
(***************************************************************************)
FillA(n) == [i \in 0..(n - 1) |-> i + 2]
FillB(n) == [i \in 0..(n - 1) |-> 2 * i + 3]
FillC(n) == [i \in 0..(n - 1) |-> 10 + i]
Zeros(n) == [i \in 0..(n - 1) |-> 0]
Pattern(seed, n) == [i \in 0..(n - 1) |-> (((i + 1) * (seed + 2) + seed) % 7) - 3]

NoPlan == [iter_dims |-> <<>>, strides_a |-> <<>>, strides_b |-> <<>>,
           strides_c |-> <<>>, n_iter |-> 0]

\* the caller's vectors as constructed, nothing planned or evaluated yet
Fresh ==
  /\ iter_dims = <<>> /\ strides_a = <<>> /\ strides_b = <<>> /\ strides_c = <<>>
  /\ n_iter = 0 /\ pc = "init" /\ err = "" /\ calls = 0
  /\ first = NoPlan /\ last_sort = [in |-> EmptyMap, out |-> <<>>]
  /\ ev = "none" /\ trace = <<>> /\ ev_bv = "none" /\ trace_bv = <<>>
  /\ bv_a = <<>> /\ bv_b = <<>> /\ bv_c = <<>>

\* every shape/spec triple of matching lengths within the bounds
Init ==
  /\ \E ra, rb, rc \in 0..MaxDims :
       /\ ra + rb + rc <= MaxDims
       /\ dim_a \in [1..ra -> Extents] /\ a \in [1..ra -> Entries]
       /\ dim_b \in [1..rb -> Extents] /\ b \in [1..rb -> Entries]
       /\ dim_c \in [1..rc -> Extents] /\ c \in [1..rc -> Entries]
  /\ a_in = FillA(product(dim_a))
  /\ b_in = FillB(product(dim_b))
  /\ c_in = FillC(product(dim_c))
  /\ Fresh

Next == Process \/ Eval

Spec == Init /\ [][Next]_vars

NextReplan == Process \/ Replan \/ Eval

SpecReplan == Init /\ [][NextReplan]_vars

(***************************************************************************)
(* Shapes and specs whose lengths may differ by one.                       *)
(***************************************************************************)
Front(v) == SubSeq(v, 1, Len(v) - 1)

Cuts == {"none", "dim_a", "a", "dim_b", "b", "dim_c", "c"}

InitLen ==
  /\ \E ra, rb, rc \in 0..MaxDims, cut \in Cuts :
       /\ ra + rb + rc <= MaxDims
       /\ \E da \in [1..ra -> Extents], sa \in [1..ra -> Entries],
             db \in [1..rb -> Extents], sb \in [1..rb -> Entries],
             dc \in [1..rc -> Extents], sc \in [1..rc -> Entries] :
            /\ dim_a = IF cut = "dim_a" THEN Front(da) ELSE da
            /\ a = IF cut = "a" THEN Front(sa) ELSE sa
            /\ dim_b = IF cut = "dim_b" THEN Front(db) ELSE db
            /\ b = IF cut = "b" THEN Front(sb) ELSE sb
            /\ dim_c = IF cut = "dim_c" THEN Front(dc) ELSE dc
            /\ c = IF cut = "c" THEN Front(sc) ELSE sc
  /\ a_in = FillA(product(dim_a))
  /\ b_in = FillB(product(dim_b))
  /\ c_in = FillC(product(dim_c))
  /\ Fresh

SpecLen == InitLen /\ [][Next]_vars

(***************************************************************************)
(* The matrix-vector scenario: A of shape [m,k] with spec [-1,-2], B of    *)
(* shape [k] with spec [-2], C of shape [m] with spec [-1], C zeroed.      *)
(***************************************************************************)
InitMV ==
  /\ \E m, k \in 1..MaxMK :
       /\ dim_a = <<m, k>> /\ a = <<-1, -2>>
       /\ dim_b = <<k>> /\ b = <<-2>>
       /\ dim_c = <<m>> /\ c = <<-1>>
  /\ \E s \in 0..MaxSeed : a_in = Pattern(s, product(dim_a))
  /\ \E s \in 0..MaxSeed : b_in = Pattern(s + 1, product(dim_b))
  /\ c_in = Zeros(product(dim_c))
  /\ Fresh

SpecMV == InitMV /\ [][Next]_vars

(***************************************************************************)
(* The executor on its own: einstein_eval called on an arbitrary plan.     *)
(***************************************************************************)
\* stride tables of family p for iteration dimensions dims; family 0 of
\* operand a is the dense column-major layout
StridesA(p, dims) ==
  [k \in 1..(Len(dims) + 1) |->
     IF p = 0 THEN (IF k = 1 THEN 0 ELSE product(SubSeq(dims, 1, k - 2)))
     ELSE (p + k) % 3]
StridesB(p, dims) == [k \in 1..(Len(dims) + 1) |-> (p * k + 1) % 3]
StridesC(p, dims) ==
  [k \in 1..(Len(dims) + 1) |->
     IF p % 2 = 0 THEN k % 2 ELSE ((k + p) \div 2) % 3]

\* number of elements a buffer needs for the plan to stay inside it
RECURSIVE Reach(_, _, _)
Reach(tab, dims, k) ==
  IF k > Len(dims) THEN 0 ELSE tab[k + 1] * (dims[k] - 1) + Reach(tab, dims, k + 1)
Span(tab, dims) == 1 + tab[1] + Reach(tab, dims, 1)

InitEval ==
  /\ \E N \in 0..MaxN : iter_dims \in [1..N -> 1..MaxIterExt]
  /\ product(iter_dims) <= MaxIters
  /\ \E p \in 0..MaxPat :
       /\ strides_a = StridesA(p, iter_dims)
       /\ strides_b = StridesB(p, iter_dims)
       /\ strides_c = StridesC(p, iter_dims)
  /\ n_iter = product(iter_dims)
  /\ a_in = Pattern(1, Span(strides_a, iter_dims))
  /\ b_in = Pattern(2, Span(strides_b, iter_dims))
  /\ c_in = Zeros(Span(strides_c, iter_dims))
  /\ bv_a = [i \in 0..(Span(strides_a, iter_dims) - 1) |-> {i % 3}]
  /\ bv_b = [i \in 0..(Span(strides_b, iter_dims) - 1) |-> {3 + (i % 3)}]
  /\ bv_c = [i \in 0..(Span(strides_c, iter_dims) - 1) |-> {}]
  /\ dim_a = <<>> /\ dim_b = <<>> /\ dim_c = <<>>
  /\ a = <<>> /\ b = <<>> /\ c = <<>>
  /\ pc = "planned" /\ err = "" /\ calls = 1
  /\ first = NoPlan /\ last_sort = [in |-> EmptyMap, out |-> <<>>]
  /\ ev = "none" /\ trace = <<>> /\ ev_bv = "none" /\ trace_bv = <<>>

NextEval == Eval \/ EvalBvec

SpecEval == InitEval /\ [][NextEval]_vars

(***************************************************************************)
(* Vocabulary of the properties.                                           *)
(***************************************************************************)
Ops == {"a", "b", "c"}
OpSpec(x) == CASE x = "a" -> a [] x = "b" -> b [] OTHER -> c
OpDim(x) == CASE x = "a" -> dim_a [] x = "b" -> dim_b [] OTHER -> dim_c
OpStrides(x) == CASE x = "a" -> strides_a [] x = "b" -> strides_b [] OTHER -> strides_c
OpBuf(x) == CASE x = "a" -> a_in [] x = "b" -> b_in [] OTHER -> c_in

\* positions of operand x that have both a spec entry and a declared extent
Positions(x) == {i \in 1..Len(OpSpec(x)) : i <= Len(OpDim(x))}

UsedLabels ==
  UNION {{OpSpec(x)[i] : i \in {j \in 1..Len(OpSpec(x)) : OpSpec(x)[j] < 0}} : x \in Ops}

\* the extents declared for label l
DeclaredExtents(l) ==
  UNION {{OpDim(x)[i] : i \in {j \in Positions(x) : OpSpec(x)[j] = l}} : x \in Ops}

Conflict == \E l \in UsedLabels : Cardinality(DeclaredExtents(l)) > 1

LenMismatch == \E x \in Ops : Len(OpSpec(x)) # Len(OpDim(x))

AllLiteral == \A x \in Ops : \A i \in 1..Len(OpSpec(x)) : OpSpec(x)[i] >= 0

LiteralsInRange ==
  \A x \in Ops : \A i \in Positions(x) : OpSpec(x)[i] >= 0 => OpSpec(x)[i] < OpDim(x)[i]

\* the one length condition the code puts on the result spec
ResultFits == Len(c) <= Len(a) + Len(b)

HasZeroDim == \E x \in Ops : \E i \in 1..Len(OpDim(x)) : OpDim(x)[i] = 0

\* product(shape[0..p-1]) for the 0-based position p, i.e. of the first p entries
Prefix(dim, p) == product(SubSeq(dim, 1, p))

\* sum over the literal positions j of spec[j] * product(shape[0..j-1])
RECURSIVE BaseOffset(_, _, _)
BaseOffset(spec, dim, j) ==
  IF j > Len(spec) THEN 0
  ELSE (IF spec[j] >= 0 THEN spec[j] * Prefix(dim, j - 1) ELSE 0)
       + BaseOffset(spec, dim, j + 1)

\* strides_x[0] + sum over k of strides_x[k] * i_k for the index tuple t
RECURSIVE NaiveSum(_, _, _)
NaiveSum(tab, t, k) ==
  IF k > Len(t) THEN 0 ELSE tab[k + 1] * t[k] + NaiveSum(tab, t, k + 1)
NaiveOffsets(t) ==
  <<strides_a[1] + NaiveSum(strides_a, t, 1),
    strides_b[1] + NaiveSum(strides_b, t, 1),
    strides_c[1] + NaiveSum(strides_c, t, 1)>>

\* all index tuples of the naive loop nest over dims
IndexTuples(dims) ==
  {t \in [1..Len(dims) -> 0..(Max({0} \cup {dims[k] : k \in 1..Len(dims)}) - 1)] :
     \A k \in 1..Len(dims) : t[k] < dims[k]}

(***************************************************************************)
(* C1                                                                      *)
(***************************************************************************)
RECURSIVE RowDot(_, _)
RowDot(i, j) ==
  IF j < 0 THEN 0 ELSE a_in[i + dim_a[1] * j] * b_in[j] + RowDot(i, j - 1)

\* C1: in the matrix-vector scenario (A [m,k] spec [-1,-2], B [k] spec [-2],
\* C [m] spec [-1], C zeroed, planned once into fresh vectors), einstein_eval
\* leaves C[i] = sum over j of A[i + m*j] * B[j] for every i, for every m and k.
C1_MatVec ==
  ev # "none" =>
    /\ ev = "done"
    /\ \A i \in 0..(dim_a[1] - 1) : c_in[i] = RowDot(i, dim_a[2] - 1)

C1_Witness ==
  /\ ev = "done" /\ dim_a = <<2, 3>> /\ dim_b = <<3>> /\ dim_c = <<2>>
  /\ Len(trace) = 6 /\ c_in[0] # 0 /\ c_in[1] # c_in[0]

(***************************************************************************)
(* C2                                                                      *)
(***************************************************************************)
\* the iteration variables (1-based) from the fastest to the slowest running
\* one in the order einstein_eval visits the tuples
VisitOrder(N) ==
  IF N <= 3 THEN [i \in 1..N |-> N + 1 - i]
  ELSE <<N, N - 1, N - 2>> \o [i \in 1..(N - 3) |-> i]

RECURSIVE DecodeIndex(_, _, _, _)
DecodeIndex(p, ord, dims, t) ==
  IF Len(ord) = 0 THEN t
  ELSE DecodeIndex(p \div dims[Head(ord)], Tail(ord), dims,
                   [t EXCEPT ![Head(ord)] = p % dims[Head(ord)]])

\* C2: for N = 0..MaxN iteration variables of extent >= 1, n_iter the product
\* of iter_dims and stride tables of length N+1, einstein_eval invokes the
\* combine exactly once per index tuple of the naive loop nest, at offsets
\* strides_x[0] + sum_k strides_x[k]*i_k, and at no other offsets: the calls
\* are in one-to-one correspondence with the index tuples.
C2_Flattening ==
  ev # "none" =>
    LET N == Len(iter_dims)
        n == product(iter_dims)
        idx == [p \in 1..n |->
                  DecodeIndex(p - 1, VisitOrder(N), iter_dims, [k \in 1..N |-> 0])]
    IN /\ ev = "done"
       /\ Len(trace) = n
       /\ \A p \in 1..n : idx[p] \in IndexTuples(iter_dims)
       /\ Cardinality({idx[p] : p \in 1..n}) = Cardinality(IndexTuples(iter_dims))
       /\ \A p \in 1..n : trace[p] = NaiveOffsets(idx[p])

C2_Witness ==
  /\ ev = "done" /\ Len(iter_dims) = 5 /\ Len(trace) = 32
  /\ \E p \in 1..Len(trace) : trace[p][1] = 31

(***************************************************************************)
(* C3                                                                      *)
(***************************************************************************)
\* C3: a second einstein_process call with identical inputs yields the same
\* iter_dims, strides_a, strides_b, strides_c and iteration count as the
\* first, also when it is given the vectors the first call filled.
C3_Idempotent == calls >= 2 => Outputs = first

(***************************************************************************)
(* C4                                                                      *)
(***************************************************************************)
\* C4: if any shape holds a dimension of size 0 (labelled or literal), the
\* returned iteration count is 0 and einstein_eval touches no element.
C4_ZeroGuard ==
  HasZeroDim =>
    /\ pc = "planned" => n_iter = 0
    /\ ev # "none" =>
         ev = "done" /\ trace = <<>> /\ c_in = FillC(product(dim_c))

(***************************************************************************)
(* C5                                                                      *)
(***************************************************************************)
C5_State ==
  /\ Conflict => pc # "planned"
  /\ (pc = "error" /\ err = "label_conflict") => Conflict
  /\ (pc = "error" /\ Conflict /\ ResultFits /\ ~LenMismatch) => err = "label_conflict"
  /\ pc = "planned" =>
       \A l \in UsedLabels : Cardinality(DeclaredExtents(l)) = 1

C5_Step ==
  pc' = "error" =>
    UNCHANGED <<iter_dims, strides_a, strides_b, strides_c, a_in, b_in, c_in>>

\* C5: a label declared with two different extents (within one spec or
\* across specs) makes einstein_process fail its assertion, and the failing
\* call writes nothing to the data buffers and leaves iter_dims and the three
\* stride tables as they were; when the call returns, every label has exactly
\* one declared extent.
C5_LabelConflict == [](C5_State) /\ [][C5_Step]_vars

C5_Witness ==
  /\ pc = "error" /\ err = "label_conflict"
  /\ a = <<-1, -1>> /\ dim_a = <<1, 2>>

(***************************************************************************)
(* C6                                                                      *)
(***************************************************************************)
\* C6: no call in which the spec of A, B or C differs in length from its
\* shape returns a plan.
C6_LengthChecked == LenMismatch => pc # "planned"

(***************************************************************************)
(* C7                                                                      *)
(***************************************************************************)
\* C7: when every spec entry is a literal (specs as long as their shapes, the
\* result spec no longer than the two input specs together), einstein_process returns 1 with an
\* empty iter_dims and stride tables of length 1 holding the base offset
\* sum_j spec[j]*product(shape[0..j-1]); einstein_eval then invokes the combine
\* exactly once, on the elements at those offsets, and changes no other
\* element of C.
C7_NoLabels ==
  (AllLiteral /\ ResultFits) =>
    /\ pc # "error"
    /\ pc = "planned" =>
         /\ n_iter = 1 /\ iter_dims = <<>>
         /\ \A x \in Ops : OpStrides(x) = <<BaseOffset(OpSpec(x), OpDim(x), 1)>>
    /\ ev # "none" =>
         /\ trace = <<<<strides_a[1], strides_b[1], strides_c[1]>>>>
         /\ InBounds(trace, a_in, b_in, c_in) =>
              /\ ev = "done"
              /\ c_in = [FillC(product(dim_c)) EXCEPT
                           ![strides_c[1]] = @ + a_in[strides_a[1]] * b_in[strides_b[1]]]

C7_Witness ==
  /\ AllLiteral /\ ResultFits /\ ev = "done" /\ Len(a) = 2 /\ strides_a[1] = 3
  /\ c_in # FillC(product(dim_c))

(***************************************************************************)
(* C8                                                                      *)
(***************************************************************************)
\* C8: einstein_eval<bvec_t> invokes the combine on the same sequence of
\* offset triples as the arithmetic instantiation, and on a zeroed C every
\* position ends as the OR of a | b over exactly the index tuples that map to
\* it; positions no tuple maps to stay unchanged.
C8_BitVariant ==
  /\ (ev = "done" /\ ev_bv = "done") => trace_bv = trace
  /\ ev_bv # "none" =>
       LET off == [t \in IndexTuples(iter_dims) |-> NaiveOffsets(t)] IN
         /\ ev_bv = "done"
         /\ \A q \in DOMAIN bv_c :
              bv_c[q] = UNION {bv_a[off[t][1]] \cup bv_b[off[t][2]] :
                                 t \in {u \in DOMAIN off : off[u][3] = q}}

C8_Witness ==
  /\ ev = "done" /\ ev_bv = "done" /\ Len(trace_bv) > 8
  /\ \E q \in DOMAIN bv_c : Cardinality(bv_c[q]) >= 4
  /\ \E q \in DOMAIN bv_c : bv_c[q] = {}

(***************************************************************************)
(* C9                                                                      *)
(***************************************************************************)
LastPosition(spec, l) == Max({i \in 1..Len(spec) : spec[i] = l})

\* C9: with the labels numbered by ascending extent as iter_dims lists them,
\* slot 1+position of a label holds, for each operand, product(shape[0..p-1])
\* for the last position p of the label in that operand's spec (occurrences
\* are not summed) and 0 if the label does not occur there; slot 0 holds the
\* sum over the literal positions j of spec[j]*product(shape[0..j-1]).
C9_Strides ==
  pc = "planned" =>
    LET N == Cardinality(UsedLabels) IN
      /\ Len(iter_dims) >= N
      /\ \A i, j \in 1..N : i < j => iter_dims[i] <= iter_dims[j]
      /\ \A x \in Ops :
           /\ Len(OpStrides(x)) = Len(iter_dims) + 1
           /\ OpStrides(x)[1] = BaseOffset(OpSpec(x), OpDim(x), 1)
      /\ \E pos \in [UsedLabels -> 1..N] :
           /\ \A l, m \in UsedLabels : l # m => pos[l] # pos[m]
           /\ \A l \in UsedLabels : DeclaredExtents(l) = {iter_dims[pos[l]]}
           /\ \A x \in Ops : \A l \in UsedLabels :
                OpStrides(x)[1 + pos[l]] =
                  IF \E i \in 1..Len(OpSpec(x)) : OpSpec(x)[i] = l
                    THEN Prefix(OpDim(x), LastPosition(OpSpec(x), l) - 1)
                    ELSE 0

C9_Witness ==
  /\ pc = "planned" /\ a = <<-1, -1>> /\ dim_a = <<2, 2>>
  /\ strides_a = <<0, 2>> /\ strides_b = <<0, 0>>

====
